---- MODULE Spec2Model ----
(***************************************************************************)
(* A model of chatbot_app.py: the Dijkstra path router (dijkstra), the     *)
(* graph construction (build_graph_from_neo4j) and the per-user dialog     *)
(* controller (chat, handle_navigation) over the session store             *)
(* (user_sessions).                                                        *)
(*                                                                         *)
(* Strings are sequences of character codes (ASCII), so that lower(),      *)
(* upper(), the substring test `in`, int() and the ordering that heapq     *)
(* applies to its tuples are computed, not assumed.  "A" is <<65>>,        *)
(* "yes" is <<121, 101, 115>>.                                             *)
(***************************************************************************)
EXTENDS Integers, Sequences, FiniteSets, TLC

VARIABLES
    graph,          \* dijkstra: the adjacency mapping it is called with
    start,          \* dijkstra: its start argument
    end,            \* dijkstra: its end argument
    queue,          \* dijkstra: the heap of (cost, node, path, directions)
    seen,           \* dijkstra: the set of settled nodes
    result,         \* dijkstra: what it returned, once it has returned
    user_sessions,  \* the session store: user identifier -> session dict
    last,           \* the most recent chat request and how it ended
    told,           \* per user, the instructions replied since navigation started
    affirmed,       \* per user, the affirming messages since navigation started
    race,           \* chat requests in progress at once, each with its position and locals
    classifier      \* get_intent: the similarities of the text, and what its calls returned

vars ==
    <<graph, start, end, queue, seen, result, user_sessions, last, told,
      affirmed, race, classifier>>

routerVars == <<graph, start, end, queue, seen, result>>

chatVars == <<user_sessions, last, told, affirmed>>

raceVars == <<race>>

classifierVars == <<classifier>>

----------------------------------------------------------------------------
(* Bounds of the model.                                                    *)

NumNodes == 4

MaxWeight == 1

MaxEdges == 4

\* get_intent: the greatest similarity of a text to a phrase, in tenths
MaxScore == 5

\* get_intent: the number of times the same text is classified
MaxCalls == 2

\* the relationships the graph data provider returns to the router on its own
MaxRels == 3

----------------------------------------------------------------------------
(* Strings.                                                                *)

\* str.lower() on one character code
LowerChar(c) == IF c >= 65 /\ c <= 90 THEN c + 32 ELSE c

\* str.upper() on one character code
UpperChar(c) == IF c >= 97 /\ c <= 122 THEN c - 32 ELSE c

Lower(s) == [i \in 1..Len(s) |-> LowerChar(s[i])]

Upper(s) == [i \in 1..Len(s) |-> UpperChar(s[i])]

\* Python's `sub in s` on strings
Contains(sub, s) ==
    \E i \in 0..(Len(s) - Len(sub)) :
        \A j \in 1..Len(sub) : s[i + j] = sub[j]

\* Python's s < t on strings: lexicographic on code points
StrLess(s, t) ==
    \E k \in 1..(Len(s) + 1) :
        /\ k <= Len(t)
        /\ \A j \in 1..(k - 1) : s[j] = t[j]
        /\ (k = Len(s) + 1 \/ s[k] < t[k])

\* Python's a < b on lists of strings
ListLess(a, b) ==
    \E k \in 1..(Len(a) + 1) :
        /\ k <= Len(b)
        /\ \A j \in 1..(k - 1) : a[j] = b[j]
        /\ (k = Len(a) + 1 \/ StrLess(a[k], b[k]))

----------------------------------------------------------------------------
(* The graph model.                                                        *)

\* location names "A", "B", "C", ...
Nodes == {<<64 + i>> : i \in 1..NumNodes}

Weights == 0..MaxWeight

\* the instruction carried by the edge a -> b: the string "a>b"
Direction(a, b) == a \o <<62>> \o b

\* float("inf"): above the cost of every route of the bounded graphs
Inf == NumNodes * (MaxWeight + 1)

\* dict.get(key, default)
DictGet(d, key, default) == IF key \in DOMAIN d THEN d[key] ELSE default

EmptyDict == [x \in {} |-> 0]

\* the ordered pairs of distinct locations
Pairs == {p \in Nodes \X Nodes : p[1] # p[2]}

\* the relationship sets of at most MaxEdges edges
EdgeSets == {S \in SUBSET Pairs : Cardinality(S) <= MaxEdges}

\* the adjacency mapping with every location a key, edge set S, weights w
MakeGraph(S, w) ==
    [n \in Nodes |->
        [t \in {t \in Nodes : <<n, t>> \in S} |->
            [weight |-> w[<<n, t>>], direction |-> Direction(n, t)]]]

\* a graph that keeps as keys only the locations with an outgoing edge
DropBareKeys(g) == [n \in {n \in DOMAIN g : DOMAIN g[n] # {}} |-> g[n]]

----------------------------------------------------------------------------
(* dijkstra.                                                               *)

\* tuple comparison (cost, node, path, directions) as heapq applies it
TupleLess(x, y) ==
    \/ x.cost < y.cost
    \/ /\ x.cost = y.cost
       /\ \/ StrLess(x.node, y.node)
          \/ /\ x.node = y.node
             /\ \/ ListLess(x.path, y.path)
                \/ /\ x.path = y.path
                   /\ ListLess(x.directions, y.directions)

\* a wrong queue: first in, first out instead of least tuple first
HeapPushFifo(q, item) == Append(q, item)

\* heapq.heappush: the heap is kept as the sequence in pop order
HeapPush(q, item) ==
    LET k == Cardinality({i \in 1..Len(q) : ~TupleLess(item, q[i])})
    IN  SubSeq(q, 1, k) \o <<item>> \o SubSeq(q, k + 1, Len(q))

\* the least string of a non-empty set of strings
MinStr(S) == CHOOSE s \in S : \A t \in S : s = t \/ StrLess(s, t)

\* the default instruction 'move forward'
MoveForward == <<109, 111, 118, 101, 32, 102, 111, 114, 119, 97, 114, 100>>  \* "move forward"

\* a wrong line 134: the new instruction is put before the earlier ones
NewDirectionsPrepended(directions, properties) ==
    <<DictGet(properties, "direction", MoveForward)>> \o directions

\* line 134: directions + [properties.get('direction', 'move forward')]
NewDirections(directions, properties) ==
    Append(directions, DictGet(properties, "direction", MoveForward))

RECURSIVE PushNeighbors(_, _, _, _, _)
\* the for loop over graph.get(node, {}).items()
PushNeighbors(q, edges, todo, item, seenNow) ==
    IF todo = {} THEN q
    ELSE LET neighbor == MinStr(todo)
             properties == edges[neighbor]
             new_cost == item.cost + DictGet(properties, "weight", 1)
             new_directions == NewDirections(item.directions, properties)
             pushed ==
                 IF neighbor \notin seenNow
                 THEN HeapPush(q, [cost |-> new_cost, node |-> neighbor,
                                   path |-> item.path,
                                   directions |-> new_directions])
                 ELSE q
         IN  PushNeighbors(pushed, edges, todo \ {neighbor}, item, seenNow)

\* a wrong line 131: the loop is left after the first neighbor
OutEdgesFirstOnly(g, node) ==
    LET edges == DictGet(g, node, EmptyDict)
    IN  [t \in {t \in DOMAIN edges : t = MinStr(DOMAIN edges)} |-> edges[t]]

\* line 131: graph.get(node, {})
OutEdges(g, node) == DictGet(g, node, EmptyDict)

\* None as the weight of an edge: what the provider returns for a
\* relationship without a weight property
NoneWeight == 0 - 1

\* None as the instruction of an edge: what the provider returns for a
\* relationship without a direction property
NoneDirection == <<0>>

\* line 133 raises TypeError: cost + None, for a neighbor that is not settled
AddRaises(edges, seenNow) ==
    \E neighbor \in DOMAIN edges :
        /\ neighbor \notin seenNow
        /\ DictGet(edges[neighbor], "weight", 1) = NoneWeight

\* a wrong line 124: the test is dropped, a popped node is always processed
SettledNever(node, seenNow) == FALSE

\* line 124: node is in seen
Settled(node, seenNow) == node \in seenNow

NotReturned ==
    [returned |-> FALSE, raised |-> "none", cost |-> 0, path |-> <<>>,
     directions |-> <<>>]

Returned(cost, path, directions) ==
    [returned |-> TRUE, raised |-> "none", cost |-> cost, path |-> path,
     directions |-> directions]

\* the call ended with an exception
DijkstraRaised(exc) == [NotReturned EXCEPT !.raised = exc]

\* the state of a call right after line 119
DijkstraEntry(s) ==
    [queue |-> <<[cost |-> 0, node |-> s, path |-> <<>>, directions |-> <<>>]>>,
     seen |-> {},
     result |-> NotReturned]

\* one evaluation of the while condition and, if it holds, of the loop body
DijkstraIter(g, e, st) ==
    IF st.queue = <<>>
    THEN [st EXCEPT !.result = Returned(Inf, <<>>, <<>>)]
    ELSE LET popped == Head(st.queue)
             rest == Tail(st.queue)
         IN  IF Settled(popped.node, st.seen)
             THEN [st EXCEPT !.queue = rest]
             ELSE LET seenNow == st.seen \cup {popped.node}
                      path == Append(popped.path, popped.node)
                      item == [popped EXCEPT !.path = path]
                      edges == OutEdges(g, popped.node)
                  IN  IF popped.node = e
                      THEN [queue |-> rest, seen |-> seenNow,
                            result |-> Returned(popped.cost, path, popped.directions)]
                      ELSE IF AddRaises(edges, seenNow)
                      THEN [queue |-> rest, seen |-> seenNow,
                            result |-> DijkstraRaised("TypeError")]
                      ELSE [queue |-> PushNeighbors(rest, edges, DOMAIN edges,
                                                    item, seenNow),
                            seen |-> seenNow,
                            result |-> st.result]

RECURSIVE DijkstraRun(_, _, _)
DijkstraRun(g, e, st) ==
    IF st.result.returned \/ st.result.raised # "none" THEN st.result
    ELSE DijkstraRun(g, e, DijkstraIter(g, e, st))

\* dijkstra(graph, start, end)
dijkstra(g, s, e) == DijkstraRun(g, e, DijkstraEntry(s))

----------------------------------------------------------------------------
(* More of Python's strings: strip(), split into tokens, int().            *)

IsSpace(c) == c \in {9, 10, 11, 12, 13, 32}

IsDigit(c) == c >= 48 /\ c <= 57

\* str.strip()
Strip(s) ==
    LET keep == {i \in 1..Len(s) : ~IsSpace(s[i])}
    IN  IF keep = {} THEN <<>>
        ELSE SubSeq(s, CHOOSE i \in keep : \A j \in keep : i <= j,
                       CHOOSE i \in keep : \A j \in keep : i >= j)

RECURSIVE Split(_)
\* the tokens of a text, and str.split(): the maximal runs without a space
Split(s) ==
    IF s = <<>> THEN <<>>
    ELSE IF IsSpace(s[1]) THEN Split(Tail(s))
    ELSE LET stops == {i \in 1..Len(s) : IsSpace(s[i])}
             n == IF stops = {} THEN Len(s) + 1
                  ELSE CHOOSE i \in stops : \A j \in stops : i <= j
         IN  <<SubSeq(s, 1, n - 1)>> \o Split(SubSeq(s, n, Len(s)))

\* the digits of an integer literal, its sign removed
Unsigned(s) == IF s # <<>> /\ s[1] \in {43, 45} THEN Tail(s) ELSE s

\* int(s) succeeds: an optional sign, then digits, single underscores between
IntParses(s) ==
    LET body == Unsigned(s)
    IN  /\ body # <<>>
        /\ \A i \in 1..Len(body) : IsDigit(body[i]) \/ body[i] = 95
        /\ IsDigit(body[1])
        /\ IsDigit(body[Len(body)])
        /\ \A i \in 1..(Len(body) - 1) : ~(body[i] = 95 /\ body[i + 1] = 95)

RECURSIVE DigitsValue(_, _)
DigitsValue(body, acc) ==
    IF body = <<>> THEN acc
    ELSE IF body[1] = 95 THEN DigitsValue(Tail(body), acc)
    ELSE DigitsValue(Tail(body), 10 * acc + (body[1] - 48))

\* int(s), where it succeeds
IntValue(s) ==
    IF s[1] = 45 THEN 0 - DigitsValue(Unsigned(s), 0)
    ELSE DigitsValue(Unsigned(s), 0)

\* list.index(x): the first position of x, counted from 1
IndexOf(seq, x) ==
    CHOOSE i \in 1..Len(seq) : seq[i] = x /\ \A j \in 1..(i - 1) : seq[j] # x

InSeq(x, seq) == \E i \in 1..Len(seq) : seq[i] = x

----------------------------------------------------------------------------
(* What the graph data provider and the directory provider hold.           *)

LocA == <<65>>  \* "A"

LocB == <<66>>  \* "B"

LocC == <<67>>  \* "C"

LocD == <<68>>  \* "D"

LocMY == <<77, 89>>  \* "MY"

Rel(source, target, weight, direction) ==
    [source |-> source, target |-> target, weight |-> weight, direction |-> direction]

\* a campus of five locations: A -> B -> C -> D, a dearer A -> C, and MY -> A
Campus1 ==
    [nodes |-> <<LocA, LocB, LocC, LocD, LocMY>>,
     rels |-> <<Rel(LocA, LocB, 5, <<108, 101, 102, 116>>),  \* "left"
                Rel(LocB, LocC, 5, <<97, 104, 101, 97, 100>>),  \* "ahead"
                Rel(LocC, LocD, 2, <<117, 112>>),  \* "up"
                Rel(LocA, LocC, 12, <<99, 117, 116>>),  \* "cut"
                Rel(LocMY, LocA, 1, <<111, 117, 116>>)>>]  \* "out"

\* a campus of three locations: A -> B -> C
Campus2 ==
    [nodes |-> <<LocA, LocB, LocC>>,
     rels |-> <<Rel(LocA, LocB, 5, <<108, 101, 102, 116>>),  \* "left"
                Rel(LocB, LocC, 5, <<97, 104, 101, 97, 100>>)>>]  \* "ahead"

\* what the graph data provider may hold when a request asks for it
ProviderData == [campus1 |-> Campus1, campus2 |-> Campus2]

CampusData == DOMAIN ProviderData

RECURSIVE AddRels(_, _)
\* lines 107-110: the loop over the relationships
AddRels(g, rels) ==
    IF rels = <<>> THEN g
    ELSE LET rel == Head(rels)
             withSource == IF rel.source \notin DOMAIN g
                           THEN [n \in DOMAIN g \cup {rel.source} |->
                                    IF n \in DOMAIN g THEN g[n] ELSE EmptyDict]
                           ELSE g
             out == withSource[rel.source]
             props == [weight |-> rel.weight, direction |-> rel.direction]
             newOut == [t \in DOMAIN out \cup {rel.target} |->
                          IF t = rel.target THEN props ELSE out[t]]
         IN  AddRels([withSource EXCEPT ![rel.source] = newOut], Tail(rels))

\* lines 100-111, on the nodes and relationships the two queries return
BuildGraph(data) ==
    AddRels([n \in {data.nodes[i] : i \in 1..Len(data.nodes)} |-> EmptyDict],
            data.rels)

\* build_graph_from_neo4j() while the provider holds ProviderData[campus]
build_graph_from_neo4j(campus) == BuildGraph(ProviderData[campus])

Teacher(firstName, lastName, phone, email, cabin, building, department) ==
    [firstName |-> firstName, lastName |-> lastName, phone |-> phone,
     email |-> email, cabin |-> cabin, building |-> building,
     department |-> department]

\* the directory: one Al and three teachers whose first name is Bo
Directory ==
    <<Teacher(<<65, 108>>, <<82, 111, 121>>, <<49, 49>>, <<97, 64, 117>>, LocB, <<88>>, <<67, 83>>),  \* "Al", "Roy", "11", "a@u", "X", "CS"
      Teacher(<<66, 111>>, <<76, 101, 101>>, <<50, 50>>, <<98, 64, 117>>, LocC, <<88>>, <<69, 69>>),  \* "Bo", "Lee", "22", "b@u", "X", "EE"
      Teacher(<<66, 79>>, <<82, 97, 121>>, <<51, 51>>, <<99, 64, 117>>, LocD, <<89>>, <<77, 69>>),  \* "BO", "Ray", "33", "c@u", "Y", "ME"
      Teacher(<<98, 111>>, <<70, 111, 120>>, <<52, 52>>, <<100, 64, 117>>, LocB, <<89>>, <<67, 83>>)>>  \* "bo", "Fox", "44", "d@u", "Y", "CS"

\* find_teacher_by_name: toLower(t.firstName) = toLower($first_name)
find_teacher_by_name(first_name) ==
    SelectSeq(Directory, LAMBDA t : Lower(t.firstName) = Lower(first_name))

----------------------------------------------------------------------------
(* What a chat request carries, and what the classifier and the entity     *)
(* extraction return for it.                                               *)

Users == {"default_user"}

Intents ==
    {"greeting", "goodbye", "thanks", "about", "navigate", "teacher_info", "unknown"}

CannedIntents == {"greeting", "goodbye", "thanks", "about", "unknown"}

Ent(text, label) == [text |-> text, label |-> label]

\* the labelled spans the entity extraction may find in a message
DocEnts ==
    {<<>>,
     <<Ent(<<97>>, "GPE"), Ent(<<99>>, "FAC")>>,  \* "a", "c"
     <<Ent(<<65, 108>>, "PERSON")>>,  \* "Al"
     <<Ent(<<98, 111, 32, 76, 101, 101>>, "PERSON")>>,  \* "bo Lee"
     <<Ent(<<67, 121>>, "PERSON")>>}  \* "Cy"

LowerNames == {<<97>>, <<99>>, <<100>>}  \* "a", "c", "d"

NavigateFrom == <<110, 97, 118, 105, 103, 97, 116, 101, 32, 102, 114, 111, 109, 32>>  \* "navigate from "

SpaceTo == <<32, 116, 111, 32>>  \* " to "

\* the messages "navigate from x to y"
NavTexts == {NavigateFrom \o x \o SpaceTo \o y : x, y \in LowerNames}

\* the raw message strings of the requests
Messages ==
    NavTexts \cup
    {<<>>, <<89, 69, 83>>, <<79, 107>>, <<114, 101, 97, 99, 104, 101, 100>>, <<108, 111, 111, 107>>, <<110, 111>>, <<104, 101, 108, 108, 111>>,  \* "YES", "Ok", "reached", "look", "no", "hello"
     <<49>>, <<32, 50, 32>>, <<51>>, <<52>>, <<48>>, <<45, 49>>, <<116, 119, 111>>,  \* "1", " 2 ", "3", "4", "0", "-1", "two"
     <<110, 97, 118, 105, 103, 97, 116, 101, 32, 97, 32, 99>>,  \* "navigate a c"
     <<110, 97, 118, 105, 103, 97, 116, 101, 32, 102, 114, 111, 109, 32, 97, 32, 116, 111>>,  \* "navigate from a to"
     <<104, 111, 119, 32, 116, 111, 32, 103, 101, 116, 32, 102, 114, 111, 109, 32, 97, 32, 116, 111, 32, 99>>,  \* "how to get from a to c"
     <<119, 104, 111, 32, 105, 115, 32, 65, 108>>, <<119, 104, 111, 32, 105, 115, 32, 98, 111, 32, 76, 101, 101>>, <<119, 104, 111, 32, 105, 115, 32, 67, 121>>}  \* "who is Al", "who is bo Lee", "who is Cy"

\* lines 43-50: knowledge_base, the example phrases of every intent
knowledge_base ==
    [greeting |-> <<<<104, 101, 108, 108, 111>>, <<104, 105>>, <<104, 101, 121>>, <<103, 114, 101, 101, 116, 105, 110, 103, 115>>,  \* "hello", "hi", "hey", "greetings"
                    <<103, 111, 111, 100, 32, 109, 111, 114, 110, 105, 110, 103>>, <<103, 111, 111, 100, 32, 97, 102, 116, 101, 114, 110, 111, 111, 110>>>>,  \* "good morning", "good afternoon"
     goodbye |-> <<<<98, 121, 101>>, <<103, 111, 111, 100, 98, 121, 101>>, <<115, 101, 101, 32, 121, 111, 117>>, <<116, 97, 107, 101, 32, 99, 97, 114, 101>>>>,  \* "bye", "goodbye", "see you", "take care"
     thanks |-> <<<<116, 104, 97, 110, 107, 115>>, <<116, 104, 97, 110, 107, 32, 121, 111, 117>>, <<97, 112, 112, 114, 101, 99, 105, 97, 116, 101, 32, 105, 116>>>>,  \* "thanks", "thank you", "appreciate it"
     about |-> <<<<119, 104, 111, 32, 97, 114, 101, 32, 121, 111, 117>>, <<119, 104, 97, 116, 32, 97, 114, 101, 32, 121, 111, 117>>, <<119, 104, 97, 116, 32, 99, 97, 110, 32, 121, 111, 117, 32, 100, 111>>>>,  \* "who are you", "what are you", "what can you do"
     navigate |-> <<<<110, 97, 118, 105, 103, 97, 116, 101>>, <<102, 105, 110, 100>>, <<103, 111, 32, 116, 111>>, <<114, 101, 97, 99, 104>>,  \* "navigate", "find", "go to", "reach"
                    <<104, 111, 119, 32, 116, 111, 32, 103, 101, 116, 32, 116, 111>>, <<100, 105, 114, 101, 99, 116, 105, 111, 110, 115>>>>,  \* "how to get to", "directions"
     teacher_info |-> <<<<116, 101, 97, 99, 104, 101, 114>>, <<102, 97, 99, 117, 108, 116, 121>>, <<112, 114, 111, 102, 101, 115, 115, 111, 114>>, <<100, 101, 116, 97, 105, 108, 115, 32, 111, 102>>,  \* "teacher", "faculty", "professor", "details of"
                        <<105, 110, 102, 111, 114, 109, 97, 116, 105, 111, 110, 32, 111, 110>>, <<119, 104, 111, 32, 105, 115>>>>]  \* "information on", "who is"

\* the terms TfidfVectorizer keeps of a text: the words of two characters or more
Terms(text) ==
    LET words == Split(text)
    IN  {words[i] : i \in {j \in 1..Len(words) : Len(words[j]) >= 2}}

\* line 56: the vocabulary fitted on all phrases
Vocabulary ==
    UNION {UNION {Terms(knowledge_base[intent][i]) :
                     i \in 1..Len(knowledge_base[intent])} :
              intent \in DOMAIN knowledge_base}

\* lines 64-79: what get_intent can return for a message.  The similarity to
\* a phrase is above 0 only if the phrase shares a vocabulary term with the
\* lower-cased message, so best_intent is an intent owning such a phrase;
\* whether the greatest similarity exceeds 0.3 is left open.
PossibleIntents(message) ==
    {"unknown"} \cup
    {intent \in DOMAIN knowledge_base :
        \E i \in 1..Len(knowledge_base[intent]) :
            Terms(Lower(message)) \cap Terms(knowledge_base[intent][i]) # {}}

\* lines 43-50 and 68: the intents in the iteration order of knowledge_base
IntentOrder ==
    <<"greeting", "goodbye", "thanks", "about", "navigate", "teacher_info">>

RECURSIVE OwnersFrom(_)
\* the intent of every example phrase, in the order lines 68-69 visit them
OwnersFrom(i) ==
    IF i > Len(IntentOrder) THEN <<>>
    ELSE [p \in 1..Len(knowledge_base[IntentOrder[i]]) |-> IntentOrder[i]]
             \o OwnersFrom(i + 1)

PhraseOwners == OwnersFrom(1)

\* line 77: the threshold 0.3, similarities being counted in tenths
Threshold == 3

\* a wrong line 72: a later phrase with the same similarity replaces the earlier
BetterOrEqual(similarity, max_similarity) == similarity >= max_similarity

\* line 72
Better(similarity, max_similarity) == similarity > max_similarity

RECURSIVE ScanPhrases(_, _, _, _)
\* lines 68-74 from phrase i on; scores[i] is the similarity line 71 computes
ScanPhrases(scores, i, max_similarity, best_intent) ==
    IF i > Len(PhraseOwners)
    THEN [max_similarity |-> max_similarity, best_intent |-> best_intent]
    ELSE IF Better(scores[i], max_similarity)
    THEN ScanPhrases(scores, i + 1, scores[i], PhraseOwners[i])
    ELSE ScanPhrases(scores, i + 1, max_similarity, best_intent)

\* get_intent(user_input), scores being the similarities of user_input
get_intent(scores) ==
    LET scanned == ScanPhrases(scores, 1, 0, "unknown")
    IN  IF scanned.max_similarity > Threshold THEN scanned.best_intent
        ELSE "unknown"

\* no call of get_intent is looked at
NoClassifier == [scores |-> <<>>, returned |-> <<>>]

\* the entity lists the extraction may return for a text: spans of the text
EntsFor(text) ==
    {ents \in DocEnts : \A i \in 1..Len(ents) : Contains(ents[i].text, text)}

\* get_intent(message) of line 219, for every message of the model
MessageIntents == [raw \in Messages |-> PossibleIntents(Strip(raw))]

\* doc.ents of nlp(message) of line 220, for every message of the model
MessageEnts == [raw \in Messages |-> EntsFor(Strip(raw))]

----------------------------------------------------------------------------
(* Sessions, replies and how a request ends.                               *)

\* d[key] = value on a dict
DictSet(d, key, value) ==
    [k \in DOMAIN d \cup {key} |-> IF k = key THEN value ELSE d[k]]

\* line 140: the empty session store
NoSessions == [u \in {} |-> 0]

\* line 163: the session a first contact creates
IdleSession == [state |-> "idle"]

\* seq[i] of Python raises no IndexError
PyIndexOk(seq, i) == i < Len(seq) /\ i >= 0 - Len(seq)

\* seq[i] of Python, i counted from 0, negative i from the end
PyAt(seq, i) == IF i >= 0 THEN seq[i + 1] ELSE seq[Len(seq) + i + 1]

Reply(kind, args) == [kind |-> kind, args |-> args]

NoReply == Reply("none", <<>>)

\* what a request that never reached the navigation start records of it
NoNav ==
    [resolved |-> FALSE, start_node |-> <<>>, end_node |-> <<>>,
     campus |-> "none", route |-> NotReturned]

\* a handler returned jsonify({"response": reply})
Outcome(session, reply, nav) ==
    [session |-> session, reply |-> reply, raised |-> "none", nav |-> nav]

\* a handler raised exc and nothing caught it
Raise(session, exc, nav) ==
    [session |-> session, reply |-> NoReply, raised |-> exc, nav |-> nav]

\* the texts of a directory entry that a details reply shows
TeacherArgs(teacher) ==
    <<teacher.firstName, teacher.lastName, teacher.email, teacher.phone,
      teacher.cabin, teacher.building, teacher.department>>

\* nlp(text): the tokens, and the entities the extraction found
Doc(text, ents) == [tokens |-> Split(text), ents |-> ents]

----------------------------------------------------------------------------
(* handle_navigation.                                                      *)

LocationLabels == {"GPE", "LOC", "ORG", "FAC"}

\* line 270
Locations(doc) ==
    LET found == SelectSeq(doc.ents, LAMBDA ent : ent.label \in LocationLabels)
    IN  [i \in 1..Len(found) |-> Upper(found[i].text)]

TokFrom == <<102, 114, 111, 109>>  \* "from"

TokTo == <<116, 111>>  \* "to"

\* line 278: text_tokens.index('to'), counted from 0
ToIndex(text_tokens) == IndexOf(text_tokens, TokTo) - 1

\* lines 274-285: the pair (start_node, end_node); <<>> stands for None
Endpoints(doc) ==
    LET text_tokens == doc.tokens
        locations == Locations(doc)
    IN  IF InSeq(TokFrom, text_tokens) /\ InSeq(TokTo, text_tokens)
        THEN LET from_index == IndexOf(text_tokens, TokFrom) - 1
                 to_index == ToIndex(text_tokens)
             IN  IF ~PyIndexOk(text_tokens, from_index + 1)
                 THEN <<<<>>, <<>>>>
                 ELSE IF ~PyIndexOk(text_tokens, to_index + 1)
                 THEN <<Upper(PyAt(text_tokens, from_index + 1)), <<>>>>
                 ELSE <<Upper(PyAt(text_tokens, from_index + 1)),
                        Upper(PyAt(text_tokens, to_index + 1))>>
        ELSE IF Len(locations) >= 2
        THEN <<locations[1], locations[2]>>
        ELSE <<<<>>, <<>>>>

\* a wrong line 301: the first step counts as confirmed
SeedAtOne(session, path, directions) ==
    DictSet(DictSet(DictSet(DictSet(session,
        "state", "navigation_confirm"),
        "path", path),
        "directions", directions),
        "current_step", 1)

\* lines 298-301
Seed(session, path, directions) ==
    DictSet(DictSet(DictSet(DictSet(session,
        "state", "navigation_confirm"),
        "path", path),
        "directions", directions),
        "current_step", 0)

\* a wrong line 291: only the start is looked up
KnownStartOnly(campus_graph, start_node, end_node) ==
    start_node \in DOMAIN campus_graph

\* line 291: both names are keys of the graph
Known(campus_graph, start_node, end_node) ==
    start_node \in DOMAIN campus_graph /\ end_node \in DOMAIN campus_graph

\* handle_navigation(doc, user_id), session being user_sessions[user_id]
handle_navigation(session, doc, data) ==
    LET start_node == Endpoints(doc)[1]
        end_node == Endpoints(doc)[2]
    IN  IF start_node # <<>> /\ end_node # <<>>
        THEN LET campus_graph == build_graph_from_neo4j(data)
                 known == Known(campus_graph, start_node, end_node)
                 route == IF known THEN dijkstra(campus_graph, start_node, end_node)
                          ELSE NotReturned
                 nav == [resolved |-> TRUE, start_node |-> start_node,
                         end_node |-> end_node, campus |-> data,
                         route |-> route]
             IN  IF ~known
                 THEN Outcome(session,
                              Reply("unknown_location", <<start_node, end_node>>), nav)
                 ELSE IF route.raised # "none"
                 THEN Raise(session, route.raised, nav)
                 ELSE IF route.path # <<>>
                 THEN LET seeded == Seed(session, route.path, route.directions)
                      IN  IF ~PyIndexOk(route.directions, 0) \/ ~PyIndexOk(route.path, 1)
                          THEN Raise(seeded, "IndexError", nav)
                          ELSE Outcome(seeded,
                                       Reply("navigation_started",
                                             <<start_node, end_node,
                                               PyAt(route.directions, 0),
                                               PyAt(route.path, 1)>>),
                                       nav)
                 ELSE Outcome(session, Reply("no_path", <<start_node, end_node>>), nav)
        ELSE Outcome(session, Reply("need_endpoints", <<>>), NoNav)

----------------------------------------------------------------------------
(* chat: the handlers of the three mid-dialog states.                      *)

TxtYes == <<121, 101, 115>>  \* "yes"

TxtOk == <<111, 107>>  \* "ok"

TxtReached == <<114, 101, 97, 99, 104, 101, 100>>  \* "reached"

\* line 169
Affirms(message) ==
    \/ Contains(TxtYes, Lower(message))
    \/ Contains(TxtOk, Lower(message))
    \/ Contains(TxtReached, Lower(message))

\* a wrong line 174: the last step is replayed once more
StepsRemainInclusive(current_step, path) == current_step <= Len(path) - 1

\* line 174
StepsRemain(current_step, path) == current_step < Len(path) - 1

\* lines 168-184
navigation_confirm(session, message) ==
    IF Affirms(message)
    THEN LET current_step == DictGet(session, "current_step", 0)
             path == DictGet(session, "path", <<>>)
             directions == DictGet(session, "directions", <<>>)
         IN  IF StepsRemain(current_step, path)
             THEN IF ~PyIndexOk(path, current_step + 1)
                     \/ ~PyIndexOk(directions, current_step)
                  THEN Raise(session, "IndexError", NoNav)
                  ELSE IF "current_step" \notin DOMAIN session
                  THEN Raise(session, "KeyError", NoNav)
                  ELSE Outcome(DictSet(session, "current_step",
                                       session["current_step"] + 1),
                               Reply("next_step",
                                     <<PyAt(directions, current_step),
                                       PyAt(path, current_step + 1)>>),
                               NoNav)
             ELSE Outcome(DictSet(session, "state", "idle"),
                          Reply("arrived", <<>>), NoNav)
    ELSE Outcome(session, Reply("wait", <<>>), NoNav)

\* a wrong line 190: the upper end of the range is let in
ChoiceInRangeInclusive(choice, teachers) == 0 <= choice /\ choice <= Len(teachers)

\* line 190
ChoiceInRange(choice, teachers) == 0 <= choice /\ choice < Len(teachers)

\* lines 186-204
teacher_selection(session, message) ==
    IF ~IntParses(message)
    THEN Outcome(session, Reply("enter_number", <<>>), NoNav)
    ELSE LET choice == IntValue(message) - 1
             teachers == DictGet(session, "teachers", <<>>)
         IN  IF ChoiceInRange(choice, teachers)
             THEN IF ~PyIndexOk(teachers, choice)
                  THEN Raise(session, "IndexError", NoNav)
                  ELSE LET teacher == PyAt(teachers, choice)
                       IN  Outcome(DictSet(DictSet(session,
                                       "state", "navigate_to_teacher_confirm"),
                                       "teacher_cabin", teacher.cabin),
                                   Reply("teacher_details", TeacherArgs(teacher)),
                                   NoNav)
             ELSE Outcome(session, Reply("invalid_choice", <<>>), NoNav)

GoFromMyCurrentLocationTo == <<103, 111, 32, 102, 114, 111, 109, 32, 109, 121, 32, 99, 117, 114, 114, 101, 110, 116, 32, 108, 111, 99, 97, 116, 105, 111, 110, 32, 116, 111, 32>>  \* "go from my current location to "

\* doc.ents of the nlp(...) of line 209: no entity is assumed of that sentence
ConfirmEnts == {<<>>}

\* lines 206-216
navigate_to_teacher_confirm(session, message, ents, data) ==
    IF Contains(TxtYes, Lower(message))
    THEN IF "teacher_cabin" \notin DOMAIN session
         THEN Raise(session, "KeyError", NoNav)
         ELSE handle_navigation(
                  session,
                  Doc(GoFromMyCurrentLocationTo \o session["teacher_cabin"], ents),
                  data)
    ELSE Outcome(DictSet(session, "state", "idle"),
                 Reply("anything_else", <<>>), NoNav)

----------------------------------------------------------------------------
(* chat: the intent-based logic of an idle session.                        *)

\* lines 222-229 and 260-261: the fixed reply of an intent
CannedReply(intent) ==
    IF intent \in {"greeting", "goodbye", "thanks", "about"}
    THEN Reply(intent, <<>>)
    ELSE Reply("fallback", <<>>)

\* line 233
PersonNames(doc) ==
    LET found == SelectSeq(doc.ents, LAMBDA ent : ent.label = "PERSON")
    IN  [i \in 1..Len(found) |-> found[i].text]

\* lines 254-255: the numbered list of the candidates
TeacherListArgs(teachers) ==
    [i \in 1..Len(teachers) |->
        teachers[i].firstName \o <<32>> \o teachers[i].lastName
            \o <<32>> \o teachers[i].department]

\* a wrong line 241: any number of matches is treated as one
SingleMatchAny(teachers) == Len(teachers) >= 1

\* a wrong line 241: one match is listed for a choice like several
SingleMatchNever(teachers) == FALSE

\* line 241
SingleMatch(teachers) == Len(teachers) = 1

\* lines 232-259
teacher_info(session, doc) ==
    LET names == PersonNames(doc)
    IN  IF names # <<>>
        THEN IF Split(names[1]) = <<>>
             THEN Raise(session, "IndexError", NoNav)
             ELSE LET first_name == Split(names[1])[1]
                      teachers == find_teacher_by_name(first_name)
                  IN  IF teachers = <<>>
                      THEN Outcome(session, Reply("not_found", <<first_name>>), NoNav)
                      ELSE IF SingleMatch(teachers)
                      THEN Outcome(DictSet(DictSet(session,
                                       "state", "navigate_to_teacher_confirm"),
                                       "teacher_cabin", teachers[1].cabin),
                                   Reply("teacher_details", TeacherArgs(teachers[1])),
                                   NoNav)
                      ELSE Outcome(DictSet(DictSet(session,
                                       "state", "teacher_selection"),
                                       "teachers", teachers),
                                   Reply("teacher_list", TeacherListArgs(teachers)),
                                   NoNav)
        ELSE Outcome(session, Reply("who", <<>>), NoNav)

----------------------------------------------------------------------------
(* The chat requests, one at a time.                                       *)

\* the request carries no user_id
NoUserId == "<none>"

\* line 159: data.get("user_id", "default_user")
UserOf(uid) == IF uid = NoUserId THEN "default_user" ELSE uid

RequestUserIds == {NoUserId}

\* a wrong line 165: every request works on the session of default_user
SessionOfShared(u) ==
    IF "default_user" \in DOMAIN user_sessions THEN user_sessions["default_user"]
    ELSE IdleSession

\* lines 162-165: the session the request works on
SessionOf(u) ==
    IF u \in DOMAIN user_sessions THEN user_sessions[u] ELSE IdleSession

\* a wrong line 168: a wrong dispatch that classifies before it looks at the state
StateOfAlwaysIdle(session) == "idle"

\* session.get("state")
StateOf(session) == DictGet(session, "state", "none")

\* no request is in progress
NoRace == [found |-> IdleSession, req |-> <<>>]

NoRequest ==
    [kind |-> "none", user |-> "", existed |-> FALSE, pre |-> IdleSession,
     message |-> <<>>, handler |-> "none", intent |-> "none", ents |-> <<>>,
     reply |-> NoReply, raised |-> "none", nav |-> NoNav]

\* the instructions the replies have given the user in the navigation that is
\* in progress or has just ended with the arrival reply
Told(u, reply) ==
    IF reply.kind = "navigation_started" THEN <<reply.args[3]>>
    ELSE IF reply.kind = "next_step" THEN Append(DictGet(told, u, <<>>), reply.args[1])
    ELSE IF reply.kind \in {"arrived", "wait"} THEN DictGet(told, u, <<>>)
    ELSE <<>>

\* the affirming messages of the navigation in progress, or of the last one:
\* none when a navigation starts, one more with every affirming message
\* that finds the session in navigation_confirm
Affirmed(u, raw, handler, out) ==
    IF handler = "navigation_confirm"
    THEN DictGet(affirmed, u, 0) + (IF Affirms(Strip(raw)) THEN 1 ELSE 0)
    ELSE IF StateOf(out.session) = "navigation_confirm" THEN 0
    ELSE DictGet(affirmed, u, 0)

\* the request ends: the session keeps what the handler did to it
Finish(u, raw, handler, intent, ents, out) ==
    /\ user_sessions' = DictSet(user_sessions, u, out.session)
    /\ last' = [kind |-> "chat", user |-> u, existed |-> u \in DOMAIN user_sessions,
                pre |-> SessionOf(u), message |-> raw, handler |-> handler,
                intent |-> intent, ents |-> ents, reply |-> out.reply,
                raised |-> out.raised, nav |-> out.nav]
    /\ told' = DictSet(told, u, Told(u, out.reply))
    /\ affirmed' = DictSet(affirmed, u, Affirmed(u, raw, handler, out))
    /\ UNCHANGED <<routerVars, raceVars, classifierVars>>

\* a request that finds the session in navigation_confirm
ChatNavigationConfirm(uid, raw) ==
    LET u == UserOf(uid) IN
    /\ StateOf(SessionOf(u)) = "navigation_confirm"
    /\ Finish(u, raw, "navigation_confirm", "none", <<>>,
              navigation_confirm(SessionOf(u), Strip(raw)))

\* a request that finds the session in teacher_selection
ChatTeacherSelection(uid, raw) ==
    LET u == UserOf(uid) IN
    /\ StateOf(SessionOf(u)) = "teacher_selection"
    /\ Finish(u, raw, "teacher_selection", "none", <<>>,
              teacher_selection(SessionOf(u), Strip(raw)))

\* a request that finds the session in navigate_to_teacher_confirm
ChatNavigateToTeacherConfirm(uid, raw, ents, data) ==
    LET u == UserOf(uid) IN
    /\ StateOf(SessionOf(u)) = "navigate_to_teacher_confirm"
    /\ Finish(u, raw, "navigate_to_teacher_confirm", "none", ents,
              navigate_to_teacher_confirm(SessionOf(u), Strip(raw), ents, data))

\* no mid-dialog state: lines 219-220 are reached
Classifies(u) ==
    StateOf(SessionOf(u)) \notin
        {"navigation_confirm", "teacher_selection", "navigate_to_teacher_confirm"}

\* a classified request whose intent has a fixed reply
ChatCanned(uid, raw, intent) ==
    LET u == UserOf(uid) IN
    /\ Classifies(u)
    /\ intent \in MessageIntents[raw]
    /\ Finish(u, raw, "intent", intent, <<>>,
              Outcome(SessionOf(u), CannedReply(intent), NoNav))

\* a classified request whose intent is navigate
ChatNavigate(uid, raw, ents, data) ==
    LET u == UserOf(uid) IN
    /\ Classifies(u)
    /\ "navigate" \in MessageIntents[raw]
    /\ Finish(u, raw, "intent", "navigate", ents,
              handle_navigation(SessionOf(u), Doc(Strip(raw), ents), data))

\* a classified request whose intent is teacher_info
ChatTeacherInfo(uid, raw, ents) ==
    LET u == UserOf(uid) IN
    /\ Classifies(u)
    /\ "teacher_info" \in MessageIntents[raw]
    /\ Finish(u, raw, "intent", "teacher_info", ents,
              teacher_info(SessionOf(u), Doc(Strip(raw), ents)))

Init ==
    /\ user_sessions = NoSessions
    /\ last = NoRequest
    /\ told = NoSessions
    /\ affirmed = NoSessions
    /\ race = NoRace
    /\ classifier = NoClassifier
    /\ graph = EmptyDict
    /\ start = <<>>
    /\ end = <<>>
    /\ queue = <<>>
    /\ seen = {}
    /\ result = NotReturned

Next ==
    \/ \E uid \in RequestUserIds, raw \in Messages :
          ChatNavigationConfirm(uid, raw)
    \/ \E uid \in RequestUserIds, raw \in Messages :
          ChatTeacherSelection(uid, raw)
    \/ \E uid \in RequestUserIds, raw \in Messages, data \in CampusData :
          \E ents \in ConfirmEnts :
              ChatNavigateToTeacherConfirm(uid, raw, ents, data)
    \/ \E uid \in RequestUserIds, raw \in Messages, intent \in CannedIntents :
          ChatCanned(uid, raw, intent)
    \/ \E uid \in RequestUserIds, raw \in Messages, data \in CampusData :
          \E ents \in MessageEnts[raw] :
              ChatNavigate(uid, raw, ents, data)
    \/ \E uid \in RequestUserIds, raw \in Messages :
          \E ents \in MessageEnts[raw] :
              ChatTeacherInfo(uid, raw, ents)

Spec == Init /\ [][Next]_vars

\* the raw messages of a user who asks for routes and walks them
LiveMessages ==
    NavTexts \cup
    {<<89, 69, 83>>, <<79, 107>>, <<108, 111, 111, 107>>, <<104, 101, 108, 108, 111>>}  \* "YES", "Ok", "look", "hello"

\* those of the messages that affirm
AffirmingMessages == {raw \in LiveMessages : Affirms(Strip(raw))}

\* an affirming message of the user to a session in navigation_confirm
AffirmStep ==
    \E uid \in RequestUserIds, raw \in AffirmingMessages :
        ChatNavigationConfirm(uid, raw)

LiveNext ==
    \/ \E uid \in RequestUserIds, raw \in LiveMessages :
          ChatNavigationConfirm(uid, raw)
    \/ \E uid \in RequestUserIds, raw \in LiveMessages, intent \in CannedIntents :
          ChatCanned(uid, raw, intent)
    \/ \E uid \in RequestUserIds, raw \in LiveMessages, data \in CampusData :
          \E ents \in MessageEnts[raw] :
              ChatNavigate(uid, raw, ents, data)

\* the user keeps affirming while a navigation is in progress
LiveSpec == Init /\ [][LiveNext]_vars /\ WF_vars(AffirmStep)

----------------------------------------------------------------------------
(* The router on its own: a call of dijkstra on a bounded graph, one loop  *)
(* iteration per step.                                                     *)

RouterInit ==
    /\ \E S \in EdgeSets : \E w \in [S -> Weights] :
          \/ graph = MakeGraph(S, w)
          \/ graph = DropBareKeys(MakeGraph(S, w))
    /\ start \in Nodes
    /\ end \in Nodes
    /\ queue = DijkstraEntry(start).queue
    /\ seen = {}
    /\ result = NotReturned
    /\ user_sessions = NoSessions
    /\ last = NoRequest
    /\ told = NoSessions
    /\ affirmed = NoSessions
    /\ race = NoRace
    /\ classifier = NoClassifier

RouterState == [queue |-> queue, seen |-> seen, result |-> result]

RouterStep(st) ==
    /\ queue' = st.queue
    /\ seen' = st.seen
    /\ result' = st.result
    /\ UNCHANGED <<graph, start, end, chatVars, raceVars, classifierVars>>

\* the loop of lines 121-135 is still running
Running == ~result.returned /\ result.raised = "none"

\* the popped node was settled before: line 124 is false
PopSeen ==
    /\ Running
    /\ queue # <<>>
    /\ Head(queue).node \in seen
    /\ RouterStep(DijkstraIter(graph, end, RouterState))

\* the popped node is end: lines 125-129
SettleEnd ==
    /\ Running
    /\ queue # <<>>
    /\ Head(queue).node \notin seen
    /\ Head(queue).node = end
    /\ RouterStep(DijkstraIter(graph, end, RouterState))

\* the popped node is settled and expanded: lines 125-135
SettleExpand ==
    /\ Running
    /\ queue # <<>>
    /\ Head(queue).node \notin seen
    /\ Head(queue).node # end
    /\ RouterStep(DijkstraIter(graph, end, RouterState))

\* the queue is empty: line 136
Exhausted ==
    /\ Running
    /\ queue = <<>>
    /\ RouterStep(DijkstraIter(graph, end, RouterState))

RouterNext == PopSeen \/ SettleEnd \/ SettleExpand \/ Exhausted

RouterSpec == RouterInit /\ [][RouterNext]_vars

\* the calls that start at location "A" on a graph with every location a key
\* and every edge of one weight
RouterLiveInit ==
    /\ RouterInit
    /\ start = <<65>>
    /\ DOMAIN graph = Nodes
    /\ \E w \in Weights :
          \A n \in Nodes : \A t \in DOMAIN graph[n] : graph[n][t].weight = w

\* the call keeps running until it ends: code that can run does run
RouterLiveSpec == RouterLiveInit /\ [][RouterNext]_vars /\ WF_vars(RouterNext)

----------------------------------------------------------------------------
(* Properties of the router.                                               *)

\* every sequence of distinct locations
SimpleSeqs ==
    UNION {{p \in [1..k -> Nodes] : \A i, j \in 1..k : p[i] = p[j] => i = j} :
              k \in 1..NumNodes}

\* p follows edges of g
IsWalk(g, p) ==
    \A i \in 1..(Len(p) - 1) :
        p[i] \in DOMAIN g /\ p[i + 1] \in DOMAIN g[p[i]]

\* brute force: every simple path of g from s to e
Routes(g, s, e) ==
    {p \in SimpleSeqs : p[1] = s /\ p[Len(p)] = e /\ IsWalk(g, p)}

RECURSIVE PathCost(_, _)
\* the sum of the weights of the edges along p
PathCost(g, p) ==
    IF Len(p) <= 1 THEN 0
    ELSE g[p[1]][p[2]].weight + PathCost(g, Tail(p))

\* C1: when dijkstra returns for start and end that are keys with end
\* reachable from start, the cost is the sum of the weights along the
\* returned node path and no start-to-end path of the graph costs less.
C1_CostIsPathSumAndMinimal ==
    (/\ result.returned
     /\ start \in DOMAIN graph
     /\ end \in DOMAIN graph
     /\ Routes(graph, start, end) # {})
    => /\ result.path # <<>>
       /\ IsWalk(graph, result.path)
       /\ result.cost = PathCost(graph, result.path)
       /\ \A p \in Routes(graph, start, end) : result.cost <= PathCost(graph, p)

\* a returned route of three nodes or more that beats a route with fewer edges
C1_Witness ==
    /\ result.returned
    /\ Len(result.path) >= 3
    /\ \E p \in Routes(graph, start, end) :
           Len(p) < Len(result.path) /\ PathCost(graph, p) > result.cost

\* C2: a returned non-empty node path starts at start, ends at end, carries
\* one instruction per edge, each the instruction of that edge of the graph;
\* with start = end the result is cost 0, the path [start] and no instruction.
C2_RouteShape ==
    /\ (result.returned /\ result.path # <<>>) =>
          /\ result.path[1] = start
          /\ result.path[Len(result.path)] = end
          /\ Len(result.directions) = Len(result.path) - 1
          /\ \A i \in 1..(Len(result.path) - 1) :
                /\ result.path[i] \in DOMAIN graph
                /\ result.path[i + 1] \in DOMAIN graph[result.path[i]]
                /\ graph[result.path[i]][result.path[i + 1]].direction
                      = result.directions[i]
    /\ (result.returned /\ start = end) =>
          result = Returned(0, <<start>>, <<>>)

\* a returned route over three edges
C2_Witness ==
    /\ result.returned
    /\ Len(result.path) = 4
    /\ Len(result.directions) = 3

----------------------------------------------------------------------------
(* Properties of the dialog controller.  last is the request that has just *)
(* ended, last.pre the session it found (after lines 162-165), and Post    *)
(* the session it left.                                                    *)

Post == user_sessions[last.user]

\* the request built the graph and looked both names up
NavAttempted == last.kind = "chat" /\ last.nav.resolved

NavGraph == build_graph_from_neo4j(last.nav.campus)

\* both names are keys and the router returned a non-empty node path
NavFoundPath ==
    /\ NavAttempted
    /\ last.nav.start_node \in DOMAIN NavGraph
    /\ last.nav.end_node \in DOMAIN NavGraph
    /\ last.nav.route.path # <<>>

\* C3: whenever navigation start finds a path, the session is seeded with the
\* node path, the instruction list and current_step = 0, its state becomes
\* navigation_confirm, and the reply of the same request carries
\* directions[0] and path[1].
C3_StartSeedsAndReplies ==
    NavFoundPath =>
        /\ Post["state"] = "navigation_confirm"
        /\ Post["path"] = last.nav.route.path
        /\ Post["directions"] = last.nav.route.directions
        /\ Post["current_step"] = 0
        /\ last.raised = "none"
        /\ last.reply.kind = "navigation_started"
        /\ last.reply.args[3] = last.nav.route.directions[1]
        /\ last.reply.args[4] = last.nav.route.path[2]

\* the affirming request found the session at its final step
AtFinalStep == last.pre["current_step"] = Len(last.pre["path"]) - 1

AffirmedInNavigation ==
    /\ last.kind = "chat"
    /\ last.pre["state"] = "navigation_confirm"
    /\ Affirms(Strip(last.message))

\* C4: in navigation_confirm an affirming message at the final step makes the
\* session idle and is answered with the arrival; at a step before it the
\* state stays navigation_confirm and current_step grows by one; current_step
\* never exceeds len(path) - 1.
C4_AffirmAdvancesOrArrives ==
    /\ AffirmedInNavigation =>
          IF AtFinalStep
          THEN Post["state"] = "idle" /\ last.reply.kind = "arrived"
          ELSE /\ last.pre["current_step"] < Len(last.pre["path"]) - 1
               /\ Post["state"] = "navigation_confirm"
               /\ Post["current_step"] = last.pre["current_step"] + 1
    /\ \A u \in DOMAIN user_sessions :
          "current_step" \in DOMAIN user_sessions[u] =>
              user_sessions[u]["current_step"] <= Len(user_sessions[u]["path"]) - 1

\* the arrival after a route of two edges or more was walked
C4_Witness ==
    /\ AffirmedInNavigation
    /\ AtFinalStep
    /\ Len(last.pre["path"]) >= 3
    /\ last.reply.kind = "arrived"

\* s is the beginning of t
IsPrefix(s, t) == Len(s) <= Len(t) /\ s = SubSeq(t, 1, Len(s))

\* C5: the instructions of the route are given one at a time, each once and
\* in order: while a navigation is in progress the instructions replied so
\* far are directions[0], directions[1], ... without a repetition, and when
\* the arrival is announced they are the whole of directions.
C5_InstructionsOnceInOrder ==
    /\ \A u \in DOMAIN user_sessions :
          user_sessions[u]["state"] = "navigation_confirm" =>
              IsPrefix(told[u], user_sessions[u]["directions"])
    /\ (last.kind = "chat" /\ last.reply.kind = "arrived") =>
          told[last.user] = last.pre["directions"]

InTeacherSelection == last.kind = "chat" /\ last.pre["state"] = "teacher_selection"

\* the number the message of the request stands for is a position of the list
PicksCandidate ==
    /\ IntParses(Strip(last.message))
    /\ IntValue(Strip(last.message)) >= 1
    /\ IntValue(Strip(last.message)) <= Len(last.pre["teachers"])

\* C6: in teacher_selection a message that is an integer n of 1..len(C) moves
\* the session to navigate_to_teacher_confirm, stores the cabin of C[n-1] and
\* is answered with the details of C[n-1]; every other message leaves the
\* session as it was and is answered with a corrective reply.
C6_TeacherSelection ==
    InTeacherSelection =>
        IF PicksCandidate
        THEN LET chosen == last.pre["teachers"][IntValue(Strip(last.message))]
             IN  /\ Post["state"] = "navigate_to_teacher_confirm"
                 /\ Post["teacher_cabin"] = chosen.cabin
                 /\ last.reply = Reply("teacher_details", TeacherArgs(chosen))
        ELSE /\ Post = last.pre
             /\ last.reply.kind =
                   IF IntParses(Strip(last.message)) THEN "invalid_choice"
                   ELSE "enter_number"

\* the number past the end of a list of three candidates is turned down
C6_Witness ==
    /\ InTeacherSelection
    /\ Len(last.pre["teachers"]) = 3
    /\ Strip(last.message) = <<52>>  \* "4"
    /\ last.reply.kind = "invalid_choice"
    /\ Post = last.pre

\* C7: when navigation start is attempted and a name is not a key of the
\* graph, or both are keys and the router finds no path, the request is
\* answered (naming the unknown names, or that there is no path) and the
\* session is what it was.
C7_FailedStartLeavesSession ==
    (NavAttempted /\ ~NavFoundPath) =>
        /\ last.raised = "none"
        /\ last.reply =
              Reply(IF /\ last.nav.start_node \in DOMAIN NavGraph
                       /\ last.nav.end_node \in DOMAIN NavGraph
                    THEN "no_path" ELSE "unknown_location",
                    <<last.nav.start_node, last.nav.end_node>>)
        /\ Post = last.pre

\* an affirmed navigation to a teacher's cabin whose start is no location
C7_Witness ==
    /\ NavAttempted
    /\ last.pre["state"] = "navigate_to_teacher_confirm"
    /\ last.nav.start_node \notin DOMAIN NavGraph
    /\ last.nav.end_node \in DOMAIN NavGraph
    /\ last.reply.kind = "unknown_location"

\* C8: every chat request ends by returning a reply; nothing is raised to the
\* transport layer.
C8_EveryRequestReplies ==
    last.kind = "chat" => (last.raised = "none" /\ last.reply.kind # "none")

MidDialogStates ==
    {"navigation_confirm", "teacher_selection", "navigate_to_teacher_confirm"}

IntentReplies ==
    {"greeting", "goodbye", "thanks", "about", "fallback", "who", "not_found",
     "teacher_list"}

\* C9: a request that finds the session in navigation_confirm,
\* teacher_selection or navigate_to_teacher_confirm is handled by the handler
\* of that state and is not classified; replies of intents are given only to
\* requests that found the session idle.
C9_MidDialogNotClassified ==
    last.kind = "chat" =>
        /\ last.pre["state"] \in MidDialogStates =>
              /\ last.handler = last.pre["state"]
              /\ last.intent = "none"
              /\ last.reply.kind \notin IntentReplies
        /\ (last.intent # "none" \/ last.reply.kind \in IntentReplies) =>
              last.pre["state"] = "idle"

\* "hello" in the middle of a navigation is answered by the navigation handler
C9_Witness ==
    /\ last.kind = "chat"
    /\ last.pre["state"] = "navigation_confirm"
    /\ last.message = <<104, 101, 108, 108, 111>>  \* "hello"
    /\ last.reply.kind = "wait"

\* the request was classified teacher_info and a person name was extracted
TeacherLookup ==
    /\ last.kind = "chat"
    /\ last.pre["state"] = "idle"
    /\ last.intent = "teacher_info"
    /\ PersonNames([ents |-> last.ents]) # <<>>

\* the positions of the directory entries whose first name is the one asked for
Matches ==
    LET asked == Split(PersonNames([ents |-> last.ents])[1])[1]
    IN  {i \in 1..Len(Directory) : Lower(Directory[i].firstName) = Lower(asked)}

\* the entries at the positions of M, in the order of the directory
RECURSIVE InOrder(_)
InOrder(M) ==
    IF M = {} THEN <<>>
    ELSE LET i == CHOOSE i \in M : \A j \in M : i <= j
         IN  <<Directory[i]>> \o InOrder(M \ {i})

\* C10: in idle with intent teacher_info and a person name, no match leaves
\* the session idle and unchanged, one match moves it to
\* navigate_to_teacher_confirm with the cabin of the match stored, two or
\* more move it to teacher_selection with all matches stored in the order of
\* the directory.
C10_MatchesDecideState ==
    TeacherLookup =>
        IF Matches = {}
        THEN Post = last.pre
        ELSE IF Cardinality(Matches) = 1
        THEN /\ Post["state"] = "navigate_to_teacher_confirm"
             /\ Post["teacher_cabin"] = InOrder(Matches)[1].cabin
        ELSE /\ Post["state"] = "teacher_selection"
             /\ Post["teachers"] = InOrder(Matches)

\* three entries match the name and are stored as the candidates
C10_Witness ==
    /\ TeacherLookup
    /\ Cardinality(Matches) = 3
    /\ Post["state"] = "teacher_selection"
    /\ Len(Post["teachers"]) = 3

\* the request found the session waiting for the answer to the navigation offer
InNavigateToTeacherConfirm ==
    last.kind = "chat" /\ last.pre["state"] = "navigate_to_teacher_confirm"

\* C11: in navigate_to_teacher_confirm a message that contains "yes" runs the
\* navigation start with the stored cabin as end, and when the stored cabin is
\* a location of the graph the session enters navigation_confirm seeded with
\* a route that ends at the stored cabin; every other message makes the
\* session idle.
C11_ConfirmStartsNavigationToCabin ==
    InNavigateToTeacherConfirm =>
        IF Contains(TxtYes, Lower(Strip(last.message)))
        THEN /\ NavAttempted
             /\ last.nav.end_node = last.pre["teacher_cabin"]
             /\ last.pre["teacher_cabin"] \in DOMAIN NavGraph =>
                   /\ Post["state"] = "navigation_confirm"
                   /\ Post["path"] # <<>>
                   /\ Post["path"][Len(Post["path"])] = last.pre["teacher_cabin"]
                   /\ Post["current_step"] = 0
        ELSE Post["state"] = "idle"

----------------------------------------------------------------------------
(* More properties of the router.                                          *)

\* C12: dijkstra returns (infinite cost, no node, no instruction) exactly
\* when no directed path of the graph leads from start to end; a location
\* that is no key of the graph has no outgoing edge and raises nothing.
C12_NoPathIffUnreachable ==
    result.returned =>
        /\ (result = Returned(Inf, <<>>, <<>>)) <=> (Routes(graph, start, end) = {})
        /\ result.path = <<>> => result = Returned(Inf, <<>>, <<>>)

\* the search went through a location that is no key of the graph and ended
\* without a path
C12_Witness ==
    /\ result.returned
    /\ result = Returned(Inf, <<>>, <<>>)
    /\ Cardinality(seen) >= 3
    /\ \E n \in seen : n \notin DOMAIN graph

----------------------------------------------------------------------------
(* Two chat requests of one user at once: lines 162-184 taken one read or  *)
(* one write of the session at a time.  session is the dict object         *)
(* user_sessions[user_id], which both requests share.                      *)

RaceUser == "default_user"

\* the raw messages of the two requests; the classifier knows no word of them
RaceMessages ==
    {raw \in {<<89, 69, 83>>, <<79, 107>>, <<108, 111, 111, 107>>} :  \* "YES", "Ok", "look"
        MessageIntents[raw] = {"unknown"}}

\* the routes from A that a navigation start stores while the provider holds Campus1
RaceRoutes ==
    {dijkstra(build_graph_from_neo4j("campus1"), LocA, e) : e \in {LocC, LocD}}

\* the sessions in navigation_confirm that the two requests can find
RaceSessions ==
    UNION {{DictSet(Seed(IdleSession, r.path, r.directions), "current_step", k) :
               k \in 0..(Len(r.path) - 1)} : r \in RaceRoutes}

\* a request that has just arrived: its position and its local variables
NewRequest(raw) ==
    [message |-> raw, pc |-> "l162", current_step |-> 0, path |-> <<>>,
     directions |-> <<>>, tmp |-> 0, reply |-> NoReply, raised |-> "none"]

RaceInit ==
    /\ \E session \in RaceSessions, m1, m2 \in RaceMessages :
          /\ user_sessions = [u \in {RaceUser} |-> session]
          /\ race = [found |-> session, req |-> <<NewRequest(m1), NewRequest(m2)>>]
    /\ last = NoRequest
    /\ told = NoSessions
    /\ affirmed = NoSessions
    /\ classifier = NoClassifier
    /\ graph = EmptyDict
    /\ start = <<>>
    /\ end = <<>>
    /\ queue = <<>>
    /\ seen = {}
    /\ result = NotReturned

\* the shared session object
RaceSession == user_sessions[RaceUser]

\* request r moves on with the locals rec, the session store as it is
RaceLocal(r, rec) ==
    /\ race' = [race EXCEPT !.req[r] = rec]
    /\ UNCHANGED <<user_sessions, last, told, affirmed, routerVars, classifierVars>>

\* request r moves on with the locals rec and stores value under key
RaceWrite(r, rec, key, value) ==
    /\ race' = [race EXCEPT !.req[r] = rec]
    /\ user_sessions' = DictSet(user_sessions, RaceUser,
                                DictSet(RaceSession, key, value))
    /\ UNCHANGED <<last, told, affirmed, routerVars, classifierVars>>

\* lines 162-165
RaceBind(r) ==
    LET me == race.req[r] IN
    /\ me.pc = "l162"
    /\ race' = [race EXCEPT !.req[r] = [me EXCEPT !.pc = "l168"]]
    /\ user_sessions' = IF RaceUser \in DOMAIN user_sessions THEN user_sessions
                        ELSE DictSet(user_sessions, RaceUser, IdleSession)
    /\ UNCHANGED <<last, told, affirmed, routerVars, classifierVars>>

\* lines 168-169, and 183-184 for a message that does not affirm
RaceReadState(r) ==
    LET me == race.req[r] IN
    /\ me.pc = "l168"
    /\ RaceLocal(r,
          IF StateOf(RaceSession) # "navigation_confirm"
          THEN [me EXCEPT !.pc = "l186"]
          ELSE IF Affirms(Strip(me.message))
          THEN [me EXCEPT !.pc = "l170"]
          ELSE [me EXCEPT !.pc = "done", !.reply = Reply("wait", <<>>)])

\* line 170
RaceReadCurrentStep(r) ==
    LET me == race.req[r] IN
    /\ me.pc = "l170"
    /\ RaceLocal(r, [me EXCEPT !.pc = "l171",
                               !.current_step = DictGet(RaceSession, "current_step", 0)])

\* line 171
RaceReadPath(r) ==
    LET me == race.req[r] IN
    /\ me.pc = "l171"
    /\ RaceLocal(r, [me EXCEPT !.pc = "l172",
                               !.path = DictGet(RaceSession, "path", <<>>)])

\* line 172, then lines 174-177 and 180 on the local variables
RaceReadDirections(r) ==
    LET me == race.req[r]
        directions == DictGet(RaceSession, "directions", <<>>)
    IN  /\ me.pc = "l172"
        /\ RaceLocal(r,
              IF StepsRemain(me.current_step, me.path)
              THEN IF ~PyIndexOk(me.path, me.current_step + 1)
                      \/ ~PyIndexOk(directions, me.current_step)
                   THEN [me EXCEPT !.pc = "done", !.directions = directions,
                                   !.raised = "IndexError"]
                   ELSE [me EXCEPT !.pc = "l178r", !.directions = directions,
                                   !.reply = Reply("next_step",
                                       <<PyAt(directions, me.current_step),
                                         PyAt(me.path, me.current_step + 1)>>)]
              ELSE [me EXCEPT !.pc = "l181", !.directions = directions,
                              !.reply = Reply("arrived", <<>>)])

\* line 178, the read of session["current_step"] += 1
RaceReadForAdd(r) ==
    LET me == race.req[r] IN
    /\ me.pc = "l178r"
    /\ RaceLocal(r,
          IF "current_step" \notin DOMAIN RaceSession
          THEN [me EXCEPT !.pc = "done", !.reply = NoReply, !.raised = "KeyError"]
          ELSE [me EXCEPT !.pc = "l178w", !.tmp = RaceSession["current_step"]])

\* a wrong line 178: session["current_step"] = current_step + 1
IncrementedLocal(me) == me.current_step + 1

\* line 178: the value that += 1 stores
Incremented(me) == me.tmp + 1

\* line 178, the write of session["current_step"] += 1, then line 184
RaceWriteStep(r) ==
    LET me == race.req[r] IN
    /\ me.pc = "l178w"
    /\ RaceWrite(r, [me EXCEPT !.pc = "done"], "current_step", Incremented(me))

\* line 181, then line 184
RaceWriteIdle(r) ==
    LET me == race.req[r] IN
    /\ me.pc = "l181"
    /\ RaceWrite(r, [me EXCEPT !.pc = "done"], "state", "idle")

\* lines 186-263 for a request that found no navigation in progress: the
\* session is in no mid-dialog state and the intent has a fixed reply
RaceRest(r) ==
    LET me == race.req[r] IN
    /\ me.pc = "l186"
    /\ Classifies(RaceUser)
    /\ \E intent \in MessageIntents[me.message] \cap CannedIntents :
          RaceLocal(r, [me EXCEPT !.pc = "done", !.reply = CannedReply(intent)])

RaceNext ==
    \E r \in 1..2 :
        \/ RaceBind(r)
        \/ RaceReadState(r)
        \/ RaceReadCurrentStep(r)
        \/ RaceReadPath(r)
        \/ RaceReadDirections(r)
        \/ RaceReadForAdd(r)
        \/ RaceWriteStep(r)
        \/ RaceWriteIdle(r)
        \/ RaceRest(r)

RaceSpec == RaceInit /\ [][RaceNext]_vars

----------------------------------------------------------------------------
(* Properties of two requests at once.                                     *)

\* one request handled alone on session: lines 162-263 for the race messages
SerialStep(session, raw) ==
    IF StateOf(session) = "navigation_confirm"
    THEN navigation_confirm(session, Strip(raw))
    ELSE Outcome(session, CannedReply("unknown"), NoNav)

\* first comes before second, each handled alone
SerialOutcome(session, first, second) ==
    LET a == SerialStep(session, first)
        b == SerialStep(a.session, second)
    IN  [session |-> b.session, first |-> a.reply, second |-> b.reply]

RaceDone == race.req # <<>> /\ \A r \in 1..2 : race.req[r].pc = "done"

\* the two replies and the session are those of one of the two serial orders
MatchesSerial ==
    LET s12 == SerialOutcome(race.found, race.req[1].message, race.req[2].message)
        s21 == SerialOutcome(race.found, race.req[2].message, race.req[1].message)
    IN  \/ /\ RaceSession = s12.session
           /\ race.req[1].reply = s12.first
           /\ race.req[2].reply = s12.second
        \/ /\ RaceSession = s21.session
           /\ race.req[2].reply = s21.first
           /\ race.req[1].reply = s21.second

\* both requests affirmed and both read, at line 170, the current_step they
\* found on arrival, which is before the last step
BothReadSameStep ==
    /\ RaceDone
    /\ \A r \in 1..2 :
          /\ Affirms(Strip(race.req[r].message))
          /\ race.req[r].reply.kind = "next_step"
          /\ race.req[r].current_step = race.found["current_step"]

Max(a, b) == IF a >= b THEN a ELSE b

\* C13: nothing guards two requests of one user.  When two affirming
\* requests in navigation_confirm both read current_step before either has
\* stored its increment, the outcome is that of no serial order: both reply
\* the same instruction, and current_step ends one above the greater of the
\* two values that line 178 read, that is advanced once or advanced twice.
C13_SameUserRace ==
    BothReadSameStep =>
        LET k == race.found["current_step"]
        IN  /\ ~MatchesSerial
            /\ race.req[1].reply = race.req[2].reply
            /\ race.req[1].reply.args[1] = PyAt(race.found["directions"], k)
            /\ RaceSession["current_step"]
                  = Max(race.req[1].tmp, race.req[2].tmp) + 1
            /\ RaceSession["current_step"] \in {k + 1, k + 2}

\* the same instruction replied twice and current_step advanced once
C13_Witness ==
    /\ BothReadSameStep
    /\ ~MatchesSerial
    /\ race.req[1].reply = race.req[2].reply
    /\ RaceSession["current_step"] = race.found["current_step"] + 1

\* current_step ends above len(path) - 1
C13_Overshoot ==
    /\ RaceDone
    /\ ~MatchesSerial
    /\ RaceSession["current_step"] > Len(RaceSession["path"]) - 1

----------------------------------------------------------------------------
(* The requests of two users, one request at a time: one user sends no     *)
(* user_id and is "default_user", the other sends "u2".                    *)

UsersRequestUserIds == {NoUserId, "u2"}

\* the raw messages the two users send
UsersMessages ==
    {<<110, 97, 118, 105, 103, 97, 116, 101, 32, 102, 114, 111, 109, 32, 97, 32, 116, 111, 32, 99>>,  \* "navigate from a to c"
     <<79, 107>>, <<110, 111>>, <<32, 50, 32>>,  \* "Ok", "no", " 2 "
     <<119, 104, 111, 32, 105, 115, 32, 98, 111, 32, 76, 101, 101>>}  \* "who is bo Lee"

\* what the graph data provider holds while the two users talk
UsersCampusData == {"campus2"}

UsersNext ==
    \/ \E uid \in UsersRequestUserIds, raw \in UsersMessages :
          ChatNavigationConfirm(uid, raw)
    \/ \E uid \in UsersRequestUserIds, raw \in UsersMessages :
          ChatTeacherSelection(uid, raw)
    \/ \E uid \in UsersRequestUserIds, raw \in UsersMessages, data \in UsersCampusData :
          \E ents \in ConfirmEnts :
              ChatNavigateToTeacherConfirm(uid, raw, ents, data)
    \/ \E uid \in UsersRequestUserIds, raw \in UsersMessages, intent \in CannedIntents :
          ChatCanned(uid, raw, intent)
    \/ \E uid \in UsersRequestUserIds, raw \in UsersMessages, data \in UsersCampusData :
          \E ents \in MessageEnts[raw] :
              ChatNavigate(uid, raw, ents, data)
    \/ \E uid \in UsersRequestUserIds, raw \in UsersMessages :
          \E ents \in MessageEnts[raw] :
              ChatTeacherInfo(uid, raw, ents)

UsersSpec == Init /\ [][UsersNext]_vars

----------------------------------------------------------------------------
(* Properties of the requests of two users.                                *)

\* what chat can make of a request with message raw that works on session,
\* whatever the rest of the store holds: the session left, the reply, the failure
AloneOutcomes(session, raw) ==
    LET message == Strip(raw)
        state == StateOf(session)
        outs ==
            IF state = "navigation_confirm"
            THEN {navigation_confirm(session, message)}
            ELSE IF state = "teacher_selection"
            THEN {teacher_selection(session, message)}
            ELSE IF state = "navigate_to_teacher_confirm"
            THEN {navigate_to_teacher_confirm(session, message, ents, data) :
                     ents \in ConfirmEnts, data \in CampusData}
            ELSE {Outcome(session, CannedReply(intent), NoNav) :
                     intent \in MessageIntents[raw] \cap CannedIntents}
                 \cup {handle_navigation(session, Doc(message, ents), data) :
                          ents \in {e \in MessageEnts[raw] :
                                       "navigate" \in MessageIntents[raw]},
                          data \in CampusData}
                 \cup {teacher_info(session, Doc(message, ents)) :
                          ents \in {e \in MessageEnts[raw] :
                                       "teacher_info" \in MessageIntents[raw]}}
    IN  {<<out.session, out.reply, out.raised>> : out \in outs}

\* the step is a chat request of user u, whose session the store held or not
RequestStepOf(u) ==
    /\ last'.kind = "chat"
    /\ last'.user = u

\* C14: the sessions of different users are independent.  A request of user u
\* leaves every other session of the store as it was and removes none; it
\* works on u's session, created idle if the store had none; and the session
\* it leaves and its reply are those the same request gives on u's session
\* alone, whatever the sessions of the other users are.
C14_SessionsIndependent ==
    [][\A u \in Users \cup UsersRequestUserIds :
          RequestStepOf(u) =>
              /\ DOMAIN user_sessions' = DOMAIN user_sessions \cup {u}
              /\ \A v \in DOMAIN user_sessions :
                    v # u => user_sessions'[v] = user_sessions[v]
              /\ last'.pre = IF u \in DOMAIN user_sessions THEN user_sessions[u]
                             ELSE IdleSession
              /\ <<user_sessions'[u], last'.reply, last'.raised>>
                    \in AloneOutcomes(last'.pre, last'.message)]_vars

\* the first request of u2 opens a candidate list while default_user is in
\* the middle of a navigation
C14_Witness ==
    /\ last.kind = "chat"
    /\ last.user = "u2"
    /\ ~last.existed
    /\ last.pre = IdleSession
    /\ user_sessions["u2"]["state"] = "teacher_selection"
    /\ "default_user" \in DOMAIN user_sessions
    /\ user_sessions["default_user"]["state"] = "navigation_confirm"
    /\ user_sessions["default_user"]["current_step"] = 1

----------------------------------------------------------------------------
(* The classifier on its own: get_intent called MaxCalls times on a text   *)
(* whose similarity to every example phrase is given.                      *)

\* the similarities of a text: above 0 to at most two of the phrases
ScoreVectors ==
    {[p \in 1..Len(PhraseOwners) |->
         IF p = i THEN a ELSE IF p = j THEN b ELSE 0] :
        i, j \in 1..Len(PhraseOwners), a, b \in 0..MaxScore}

ClassifierInit ==
    /\ \E scores \in ScoreVectors : classifier = [scores |-> scores, returned |-> <<>>]
    /\ race = NoRace
    /\ user_sessions = NoSessions
    /\ last = NoRequest
    /\ told = NoSessions
    /\ affirmed = NoSessions
    /\ graph = EmptyDict
    /\ start = <<>>
    /\ end = <<>>
    /\ queue = <<>>
    /\ seen = {}
    /\ result = NotReturned

\* one call of get_intent on the text
Classify ==
    /\ Len(classifier.returned) < MaxCalls
    /\ classifier' = [classifier EXCEPT
                         !.returned = Append(@, get_intent(classifier.scores))]
    /\ UNCHANGED <<routerVars, chatVars, raceVars>>

ClassifierNext == Classify

ClassifierSpec == ClassifierInit /\ [][ClassifierNext]_vars

\* the greatest similarity of the text to a phrase
MaxSimilarity ==
    CHOOSE m \in 0..MaxScore :
        /\ \E p \in 1..Len(PhraseOwners) : classifier.scores[p] = m
        /\ \A p \in 1..Len(PhraseOwners) : classifier.scores[p] <= m

\* the first phrase, in iteration order, whose similarity is the greatest
FirstBest ==
    CHOOSE p \in 1..Len(PhraseOwners) :
        /\ classifier.scores[p] = MaxSimilarity
        /\ \A q \in 1..(p - 1) : classifier.scores[q] < MaxSimilarity

\* C15: get_intent returns the intent of the first phrase, in the order
\* intents then phrases, whose similarity is the greatest, if that similarity
\* is above the threshold 0.3, and "unknown" if it is at or below; every call
\* on the same text returns the same intent.
C15_FirstBestAboveThreshold ==
    \A k \in 1..Len(classifier.returned) :
        /\ classifier.returned[k] =
              IF MaxSimilarity > Threshold THEN PhraseOwners[FirstBest]
              ELSE "unknown"
        /\ classifier.returned[k] = classifier.returned[1]

\* two phrases of different intents share the greatest similarity, which is
\* above the threshold, and both calls returned the intent of the earlier one
C15_Witness ==
    /\ Len(classifier.returned) = MaxCalls
    /\ MaxSimilarity > Threshold
    /\ \E p \in 1..Len(PhraseOwners) :
          /\ p > FirstBest
          /\ classifier.scores[p] = MaxSimilarity
          /\ PhraseOwners[p] # PhraseOwners[FirstBest]
    /\ classifier.returned[MaxCalls] = PhraseOwners[FirstBest]

----------------------------------------------------------------------------
(* The router on the graphs that build_graph_from_neo4j makes of what the  *)
(* provider returns, where a relationship may lack its weight or its       *)
(* direction property: the provider then returns None for it.              *)

ProviderLocations == <<LocA, LocB, LocC>>

ProviderPairs ==
    {p \in {LocA, LocB, LocC} \X {LocA, LocB, LocC} : p[1] # p[2]}

RECURSIVE RelsOf(_, _, _)
\* the records of the relationships S, with weights w, without a direction
\* property where bare says so
RelsOf(S, w, bare) ==
    IF S = {} THEN <<>>
    ELSE LET p == CHOOSE p \in S :
                     \A q \in S : p = q \/ TupleLess([cost |-> 0, node |-> p[1],
                                                     path |-> <<p[2]>>, directions |-> <<>>],
                                                    [cost |-> 0, node |-> q[1],
                                                     path |-> <<q[2]>>, directions |-> <<>>])
         IN  <<Rel(p[1], p[2], w[p],
                   IF bare[p] THEN NoneDirection ELSE Direction(p[1], p[2]))>>
                 \o RelsOf(S \ {p}, w, bare)

ProviderRouterInit ==
    /\ \E S \in {S \in SUBSET ProviderPairs : Cardinality(S) <= MaxRels} :
          \E w \in [S -> Weights \cup {NoneWeight}], bare \in [S -> BOOLEAN] :
              graph = BuildGraph([nodes |-> ProviderLocations,
                                  rels |-> RelsOf(S, w, bare)])
    /\ start \in {LocA, LocB, LocC, LocD}
    /\ end \in {LocA, LocB, LocC, LocD}
    /\ queue = DijkstraEntry(start).queue
    /\ seen = {}
    /\ result = NotReturned
    /\ user_sessions = NoSessions
    /\ last = NoRequest
    /\ told = NoSessions
    /\ affirmed = NoSessions
    /\ race = NoRace
    /\ classifier = NoClassifier

ProviderRouterSpec == ProviderRouterInit /\ [][RouterNext]_vars

\* the weight the edge is to be routed with
WeightOrOne(properties) ==
    IF properties.weight = NoneWeight THEN 1 ELSE properties.weight

\* the instruction the edge is to yield
DirectionOrMoveForward(properties) ==
    IF properties.direction = NoneDirection THEN MoveForward
    ELSE properties.direction

RECURSIVE CostWithDefaults(_, _)
CostWithDefaults(g, p) ==
    IF Len(p) <= 1 THEN 0
    ELSE WeightOrOne(g[p[1]][p[2]]) + CostWithDefaults(g, Tail(p))

\* C16: on a graph that build_graph_from_neo4j made of relationships some of
\* which have no weight or no direction property, routing raises nothing, an
\* edge without a weight counts 1 in the cost, and an edge without an
\* instruction yields "move forward".
C16_AbsentPropertiesDefault ==
    /\ result.raised = "none"
    /\ (result.returned /\ result.path # <<>>) =>
          /\ result.cost = CostWithDefaults(graph, result.path)
          /\ \A i \in 1..(Len(result.path) - 1) :
                result.directions[i] =
                    DirectionOrMoveForward(graph[result.path[i]][result.path[i + 1]])

----------------------------------------------------------------------------
(* More properties of the dialog controller.                               *)

\* the request ran the navigation start
NavStartRequest ==
    /\ last.kind = "chat"
    /\ \/ last.intent = "navigate"
       \/ /\ last.pre["state"] = "navigate_to_teacher_confirm"
          /\ Contains(TxtYes, Lower(Strip(last.message)))

\* the tokens the navigation start of the request scanned
NavTokens ==
    IF last.intent = "navigate" THEN Split(Strip(last.message))
    ELSE Split(GoFromMyCurrentLocationTo \o last.pre["teacher_cabin"])

\* the pairs (i, j): token i is "from" and has a successor, a later token j
\* is "to" and has a successor
FromToPatterns(tokens) ==
    {p \in (1..Len(tokens)) \X (1..Len(tokens)) :
        /\ tokens[p[1]] = TokFrom
        /\ tokens[p[2]] = TokTo
        /\ p[1] + 1 < p[2]
        /\ p[2] + 1 <= Len(tokens)}

\* C17: a navigation start whose tokens hold "from X ... to Y" uses upper-cased
\* X as start and upper-cased Y as end, also when another "to" comes earlier
\* in the message; when "from" or "to" is the last token the reply asks for
\* both endpoints and the session is what it was.
C17_FromToScan ==
    NavStartRequest =>
        /\ FromToPatterns(NavTokens) # {} =>
              /\ last.nav.resolved
              /\ \E p \in FromToPatterns(NavTokens) :
                    /\ last.nav.start_node = Upper(NavTokens[p[1] + 1])
                    /\ last.nav.end_node = Upper(NavTokens[p[2] + 1])
        /\ (/\ InSeq(TokFrom, NavTokens)
            /\ InSeq(TokTo, NavTokens)
            /\ NavTokens[Len(NavTokens)] \in {TokFrom, TokTo}) =>
              /\ last.reply.kind = "need_endpoints"
              /\ Post = last.pre

----------------------------------------------------------------------------
(* Termination of the router.                                              *)

\* one iteration of the loop, as the claim sees it: seen never loses a node;
\* a popped node that is in seen is dropped and nothing else changes; a
\* change of seen adds the popped node, which was not in it
SettlesOnce ==
    /\ seen \subseteq seen'
    /\ (Running /\ queue # <<>> /\ Head(queue).node \in seen) =>
          /\ seen' = seen
          /\ queue' = Tail(queue)
          /\ result' = result
    /\ seen' # seen =>
          /\ Head(queue).node \notin seen
          /\ seen' = seen \cup {Head(queue).node}
    /\ result' # result =>
          \/ queue = <<>> /\ result' = Returned(Inf, <<>>, <<>>)
          \/ /\ queue # <<>>
             /\ Head(queue).node = end
             /\ end \in seen'
             /\ result'.returned
             /\ result'.path # <<>>

\* C18: on every finite graph dijkstra terminates: a node is settled at most
\* once, seen only grows, and the loop ends by returning when end is settled
\* or by finding the queue empty.
C18_Terminates ==
    /\ [][SettlesOnce]_vars
    /\ <>(result.returned)

\* the queue ran empty after every location but end was settled, one of them
\* popped again on the way
C18_Witness ==
    /\ result = Returned(Inf, <<>>, <<>>)
    /\ queue = <<>>
    /\ seen = Nodes \ {end}
    /\ \E n \in seen : Cardinality({m \in seen : n \in DOMAIN OutEdges(graph, m)}) >= 2

\* the session of default_user is in the given dialog state
DefaultUserIn(state) ==
    /\ "default_user" \in DOMAIN user_sessions
    /\ user_sessions["default_user"]["state"] = state

\* what holds of every request and every session while navigations go on
NavigationLeftByAffirming ==
    /\ (last.kind = "chat" /\ last.pre["state"] = "navigation_confirm") =>
          /\ ~Affirms(Strip(last.message)) => Post = last.pre
          /\ Post["state"] # "navigation_confirm" =>
                /\ Affirms(Strip(last.message))
                /\ Post["state"] = "idle"
                /\ last.reply.kind = "arrived"
                /\ affirmed[last.user] = Len(last.pre["path"])
    /\ \A u \in DOMAIN user_sessions :
          user_sessions[u]["state"] = "navigation_confirm" =>
              /\ affirmed[u] = user_sessions[u]["current_step"]
              /\ affirmed[u] < Len(user_sessions[u]["path"])

\* C19: a session in navigation_confirm with a route of n nodes is left only
\* by affirming messages: any other message leaves the whole session as it
\* was, the n-th affirming message makes it idle and no earlier one does, and
\* if the user keeps affirming the session becomes idle.
C19_NavigationEndsByAffirming ==
    /\ [](NavigationLeftByAffirming)
    /\ DefaultUserIn("navigation_confirm") ~> DefaultUserIn("idle")

\* the fourth affirming message ends the navigation over a route of four nodes
C19_Witness ==
    /\ last.kind = "chat"
    /\ last.reply.kind = "arrived"
    /\ Len(last.pre["path"]) = 4
    /\ affirmed[last.user] = 4
    /\ DefaultUserIn("idle")

DialogStates ==
    {"idle", "navigation_confirm", "teacher_selection", "navigate_to_teacher_confirm"}

\* the session holds what its dialog state needs
PayloadFits(session) ==
    /\ "state" \in DOMAIN session
    /\ session["state"] \in DialogStates
    /\ session["state"] = "navigation_confirm" =>
          /\ {"path", "directions", "current_step"} \subseteq DOMAIN session
          /\ session["path"] # <<>>
          /\ Len(session["directions"]) = Len(session["path"]) - 1
          /\ session["current_step"] >= 0
          /\ session["current_step"] <= Len(session["path"]) - 1
    /\ session["state"] = "teacher_selection" =>
          /\ "teachers" \in DOMAIN session
          /\ Len(session["teachers"]) >= 2
    /\ session["state"] = "navigate_to_teacher_confirm" =>
          /\ "teacher_cabin" \in DOMAIN session
          /\ \E i \in 1..Len(Directory) :
                Directory[i].cabin = session["teacher_cabin"]

\* C20: with one request at a time, between requests every session is in one
\* of the four dialog states and holds the payload of its state: in
\* navigation_confirm a non-empty path, one instruction less than nodes and
\* 0 <= current_step <= len(path) - 1; in teacher_selection two candidates or
\* more; in navigate_to_teacher_confirm a stored cabin.
C20_PayloadConsistent ==
    \A u \in DOMAIN user_sessions : PayloadFits(user_sessions[u])

\* the request that failed on a route of one node left the session in
\* navigation_confirm with that node as path and no instruction
C20_Witness ==
    /\ last.kind = "chat"
    /\ last.raised = "IndexError"
    /\ Post["state"] = "navigation_confirm"
    /\ Len(Post["path"]) = 1
    /\ Post["directions"] = <<>>
    /\ Post["current_step"] = 0

====
